---- MODULE Spec2Model ----
(***************************************************************************)
(* garaged: the garage-door controller of src/src/main.rs.                 *)
(*                                                                         *)
(* One asynchronous task (main) sets up four GPIO lines and an MQTT        *)
(* client, then loops on a tokio::select! over a 60 s timer, the status    *)
(* line's edge stream, the trigger line's edge stream, the MQTT event      *)
(* loop and ctrl-c.  The model follows main statement by statement; every  *)
(* fallible call has an Ok and an Err outcome chosen by the environment,   *)
(* and every .await at which the task can be suspended is a separate pc.   *)
(***************************************************************************)
EXTENDS Integers, Sequences, FiniteSets, TLC

\* Raw u8 values an edge stream item may carry: 0..MaxRaw.
MaxRaw == 2
RawValues == 0..MaxRaw

\* Values of the physical status line as get_value() returns them.
LineValues == {0, 1}

\* AsyncClient::new(options, 10): capacity of the request channel.
QueueCap == 10

(***************************************************************************)
(* Status and Command, with their strum serialisations.                    *)
(***************************************************************************)
\* "OPEN" and "CLOSE" as bytes
OPEN_bytes == <<79, 80, 69, 78>>
CLOSE_bytes == <<67, 76, 79, 83, 69>>

\* Payloads the broker may deliver on the command topic: the two commands,
\* then "", "open", "OPEN ", "CLOSED", a lone 0xFF, "OPEN" followed by
\* 0xFF, and a well-formed two-byte character followed by "PEN".
Payloads ==
    { OPEN_bytes, CLOSE_bytes, <<>>, <<111, 112, 101, 110>>,
      <<79, 80, 69, 78, 32>>, <<67, 76, 79, 83, 69, 68>>, <<255>>,
      <<79, 80, 69, 78, 255>>, <<195, 150, 80, 69, 78>> }

IsCont(b) == b >= 128 /\ b <= 191

\* std::str::from_utf8: TRUE iff the bytes are well-formed UTF-8 (lead byte
\* classes and continuation bytes; the second-byte ranges that exclude
\* overlong and surrogate forms are not distinguished).
RECURSIVE from_utf8(_)
from_utf8(bs) ==
    IF bs = <<>> THEN TRUE
    ELSE LET b == Head(bs)
             n == Len(bs)
         IN  IF b < 128 THEN from_utf8(Tail(bs))
             ELSE IF b >= 194 /\ b <= 223
                  THEN n >= 2 /\ IsCont(bs[2]) /\ from_utf8(SubSeq(bs, 3, n))
             ELSE IF b >= 224 /\ b <= 239
                  THEN n >= 3 /\ IsCont(bs[2]) /\ IsCont(bs[3])
                       /\ from_utf8(SubSeq(bs, 4, n))
             ELSE IF b >= 240 /\ b <= 244
                  THEN n >= 4 /\ IsCont(bs[2]) /\ IsCont(bs[3]) /\ IsCont(bs[4])
                       /\ from_utf8(SubSeq(bs, 5, n))
             ELSE FALSE

\* ASCII upper-casing of one byte (used by the case-insensitive variant).
ToUpper(b) == IF b >= 97 /\ b <= 122 THEN b - 32 ELSE b

\* Variant of Command::from_str that matches case-insensitively.
Command_from_str_nocase(s) ==
    LET u == [i \in 1..Len(s) |-> ToUpper(s[i])]
    IN  IF u = OPEN_bytes THEN "Open"
        ELSE IF u = CLOSE_bytes THEN "Close"
        ELSE "Err"

\* #[derive(EnumString)] for Command: exact match on the serialize strings.
Command_from_str(s) ==
    IF s = OPEN_bytes THEN "Open"
    ELSE IF s = CLOSE_bytes THEN "Close"
    ELSE "Err"

\* from_utf8(payload).and_then(Command::from_str): "Open", "Close" or "Err".
parse_command(payload) ==
    IF from_utf8(payload) THEN Command_from_str(payload) ELSE "Err"

\* Variant of parse_door_status that treats the value as a threshold.
parse_door_status_threshold(status) ==
    IF status <= 1 THEN "Open" ELSE "Closed"

\* parse_door_status: 0 => Open, _ => Closed.
parse_door_status(status) ==
    IF status = 0 THEN "Open" ELSE "Closed"

\* #[derive(Display)] for Status: "open" / "closed".
Status_to_string(s) ==
    IF s = "Open" THEN "open" ELSE "closed"

\* The three topics, format!("{}/...", mqtt_path).
config_topic == "homeassistant/cover/garage/config"
command_topic == "homeassistant/cover/garage/command"
state_topic == "homeassistant/cover/garage/state"
other_topic == "homeassistant/cover/other/command"
Topics == {command_topic, other_topic}

(***************************************************************************)
(* State.                                                                  *)
(***************************************************************************)
VARIABLES
    pc,               \* position of main
    enable_led,       \* argument of Hardware::init
    exported,         \* the lines currently exported
    relay,            \* value of the relay output
    led,              \* value of the indicator output
    line,             \* value of the physical status line
    lockHeld,         \* hw.lock is held
    reqQueue,         \* requests in the client -> event loop channel
    req,              \* the request a suspended publish is sending
    published,        \* payload of the most recent state publish sent
    connected,        \* the event loop has a broker connection
    subscribed,       \* the broker has the command-topic subscription
    handlerInstalled, \* tokio has installed its SIGINT handler
    listening,        \* this select's ctrl_c future is registered
    sigPending,       \* that future has been notified of a SIGINT
    sigRaised,        \* a SIGINT has reached tokio's handler
    last,             \* the event main handled most recently
    cur,              \* locals of the handler in progress
    outcome,          \* "running", or how the process ended
    pulsed            \* trigger_relay has returned Ok at least once

hwv == <<exported, relay, led, lockHeld>>
busv == <<reqQueue, req, published, connected, subscribed>>
sigv == <<handlerInstalled, listening, sigPending, sigRaised>>
vars == <<pc, enable_led, exported, relay, led, line, lockHeld, reqQueue, req,
          published, connected, subscribed, handlerInstalled, listening,
          sigPending, sigRaised, last, cur, outcome, pulsed>>

NoReq == [kind |-> "none", topic |-> "", retain |-> FALSE, payload |-> ""]
NoCur == [arm |-> "none", val |-> 0, cmd |-> "", status |-> ""]

\* client.publish(config_topic, QoS::AtLeastOnce, false, to_vec(&config)?)
ConfigReq ==
    [kind |-> "publish", topic |-> config_topic, retain |-> FALSE,
     payload |-> "config"]

\* client.subscribe(&command_topic, QoS::ExactlyOnce)
SubscribeReq ==
    [kind |-> "subscribe", topic |-> command_topic, retain |-> FALSE,
     payload |-> ""]

\* Variant of the state publish with the retain flag cleared.
StateReq_unretained(status) ==
    [kind |-> "publish", topic |-> state_topic, retain |-> FALSE,
     payload |-> Status_to_string(status)]

\* client.publish(&state_topic, QoS::AtLeastOnce, true, status.to_string())
StateReq(status) ==
    [kind |-> "publish", topic |-> state_topic, retain |-> TRUE,
     payload |-> Status_to_string(status)]

\* What the channel holds of a request (the payload is kept in `published`).
QueueEntry(r) == [kind |-> r.kind, topic |-> r.topic, retain |-> r.retain]

Init ==
    /\ enable_led \in BOOLEAN
    /\ pc = IF enable_led THEN "led_export" ELSE "relay_export"
    /\ exported = {}
    /\ relay = 0
    /\ led = 0
    /\ line \in LineValues
    /\ lockHeld = FALSE
    /\ reqQueue = <<>>
    /\ req = NoReq
    /\ published = ""
    /\ connected = FALSE
    /\ subscribed = FALSE
    /\ handlerInstalled = FALSE
    /\ listening = FALSE
    /\ sigPending = FALSE
    /\ sigRaised = FALSE
    /\ last = "none"
    /\ cur = NoCur
    /\ outcome = "running"
    /\ pulsed = FALSE

(***************************************************************************)
(* The statements of Hardware::init and of main up to the loop.             *)
(***************************************************************************)
Pins == {"led", "relay", "status", "input"}
ExportPc == [led |-> "led_export", relay |-> "relay_export",
             status |-> "status_export", input |-> "input_export"]
DirectionPc == [led |-> "led_direction", relay |-> "relay_direction",
                status |-> "status_direction", input |-> "input_direction"]
EdgePc == [status |-> "status_edge", input |-> "input_edge"]
StreamPc == [status |-> "status_stream", input |-> "input_stream"]

\* A startup that subscribes before it announces the door.
NextPc_subscribe_first ==
    [led_export |-> "led_direction", led_direction |-> "relay_export",
     relay_export |-> "relay_direction", relay_direction |-> "status_export",
     status_export |-> "status_direction", status_direction |-> "status_edge",
     status_edge |-> "input_export", input_export |-> "input_direction",
     input_direction |-> "input_edge", input_edge |-> "status_stream",
     status_stream |-> "input_stream", input_stream |-> "hostname",
     hostname |-> "subscribe", subscribe |-> "pub_config",
     pub_config |-> "read_initial", read_initial |-> "pub_initial",
     pub_initial |-> "select"]

\* The statement that follows each setup statement.
NextPc ==
    [led_export |-> "led_direction", led_direction |-> "relay_export",
     relay_export |-> "relay_direction", relay_direction |-> "status_export",
     status_export |-> "status_direction", status_direction |-> "status_edge",
     status_edge |-> "input_export", input_export |-> "input_direction",
     input_direction |-> "input_edge", input_edge |-> "status_stream",
     status_stream |-> "input_stream", input_stream |-> "hostname",
     hostname |-> "pub_config", pub_config |-> "subscribe",
     subscribe |-> "read_initial", read_initial |-> "pub_initial",
     pub_initial |-> "select"]

(***************************************************************************)
(* Process exit.                                                           *)
(***************************************************************************)
\* impl Drop for Hardware: every line of the aggregate is unexported.
Drop_Hardware == exported' = {}

\* Variant of InitErr in which the failed call's result is ignored.
InitErr_ignored ==
    /\ pc' = NextPc[pc]
    /\ outcome' = outcome
    /\ last' = "setup_err"
    /\ UNCHANGED <<enable_led, exported, relay, led, line, lockHeld, busv,
                   sigv, cur, pulsed>>

\* An error returned from Hardware::init by `?`: main returns it before a
\* Hardware value exists, so nothing is dropped.
InitErr ==
    /\ pc' = "done"
    /\ outcome' = "failure"
    /\ last' = "setup_err"
    /\ UNCHANGED <<enable_led, exported, relay, led, line, lockHeld, busv,
                   sigv, cur, pulsed>>

\* Variant of the propagation that swallows the error and goes on waiting.
ReturnErr_swallow(cls) ==
    /\ pc' = "select"
    /\ outcome' = outcome
    /\ last' = cls
    /\ cur' = NoCur
    /\ UNCHANGED <<exported, lockHeld>>

\* Variant of the propagation that ends the process with success.
ReturnErr_success(cls) ==
    /\ pc' = "done"
    /\ outcome' = "success"
    /\ last' = cls
    /\ cur' = cur
    /\ exported' = {}
    /\ lockHeld' = FALSE

\* An error returned from main by `?` or `return Err(..)` once hw exists:
\* hw (and a lock guard, if one is live) is dropped and the process fails.
ReturnErr(cls) ==
    /\ pc' = "done"
    /\ outcome' = "failure"
    /\ last' = cls
    /\ cur' = cur
    /\ Drop_Hardware
    /\ lockHeld' = FALSE

\* `break`, then println!("exiting program"); Ok(()): hw is dropped.
ReturnOk(cls) ==
    /\ pc' = "done"
    /\ outcome' = "success"
    /\ last' = cls
    /\ cur' = NoCur
    /\ Drop_Hardware
    /\ lockHeld' = FALSE

(***************************************************************************)
(* Hardware::init(enable_led), one fallible call per step.                 *)
(***************************************************************************)
\* pin.export()?
Export(pin) ==
    /\ pc = ExportPc[pin]
    /\ \E ok \in BOOLEAN :
          IF ok
          THEN /\ exported' = exported \cup {pin}
               /\ pc' = NextPc[pc]
               /\ UNCHANGED <<enable_led, relay, led, line, lockHeld, busv,
                              sigv, last, cur, outcome, pulsed>>
          ELSE InitErr

\* Direction::High: the output starts at 1.
Direction_High(pin) == 1

\* Direction::Low: the line is made an output whose value starts at 0.
Direction_Low(pin) == 0

\* pin.set_direction(Direction::Low)? for the outputs (initial value low),
\* pin.set_direction(Direction::In)? for the inputs.
SetDirection(pin) ==
    /\ pc = DirectionPc[pin]
    /\ \E ok \in BOOLEAN :
          IF ok
          THEN /\ pc' = NextPc[pc]
               /\ relay' = IF pin = "relay" THEN Direction_Low(pin) ELSE relay
               /\ led' = IF pin = "led" THEN Direction_Low(pin) ELSE led
               /\ UNCHANGED <<enable_led, exported, line, lockHeld, busv,
                              sigv, last, cur, outcome, pulsed>>
          ELSE InitErr

\* pin.set_edge(Edge::BothEdges)? / pin.set_edge(Edge::RisingEdge)?
SetEdge(pin) ==
    /\ pin \in DOMAIN EdgePc
    /\ pc = EdgePc[pin]
    /\ \E ok \in BOOLEAN :
          IF ok
          THEN /\ pc' = NextPc[pc]
               /\ UNCHANGED <<enable_led, hwv, line, busv, sigv, last, cur,
                              outcome, pulsed>>
          ELSE InitErr

(***************************************************************************)
(* main, up to the loop.                                                   *)
(***************************************************************************)
\* hw.status.get_value_stream()? / hw.input.get_value_stream()?
GetValueStream(pin) ==
    /\ pin \in DOMAIN StreamPc
    /\ pc = StreamPc[pin]
    /\ \E ok \in BOOLEAN :
          IF ok
          THEN /\ pc' = NextPc[pc]
               /\ UNCHANGED <<enable_led, hwv, line, busv, sigv, last, cur,
                              outcome, pulsed>>
          ELSE /\ ReturnErr("setup_err")
               /\ UNCHANGED <<enable_led, relay, led, line, busv, sigv,
                              pulsed>>

\* gethostname().into_string().expect("failed to get hostname"): a panic
\* unwinds main, which drops hw.
GetHostname ==
    /\ pc = "hostname"
    /\ \E ok \in BOOLEAN :
          IF ok
          THEN /\ pc' = NextPc[pc]
               /\ UNCHANGED <<enable_led, hwv, line, busv, sigv, last, cur,
                              outcome, pulsed>>
          ELSE /\ ReturnErr("setup_err")
               /\ UNCHANGED <<enable_led, relay, led, line, busv, sigv,
                              pulsed>>

\* A channel without a capacity: a send never waits.
CanEnqueue_unbounded == TRUE

\* Sender::send on the bounded channel: possible while there is room.
CanEnqueue == Len(reqQueue) < QueueCap
Enqueued(r) == Append(reqQueue, QueueEntry(r))

\* client.publish(config_topic, ..).await?
PublishConfig ==
    /\ pc = "pub_config"
    /\ \E ok \in BOOLEAN :
          IF ok
          THEN /\ CanEnqueue
               /\ reqQueue' = Enqueued(ConfigReq)
               /\ pc' = NextPc[pc]
               /\ UNCHANGED <<enable_led, hwv, line, req, published,
                              connected, subscribed, sigv, last, cur,
                              outcome, pulsed>>
          ELSE /\ ReturnErr("setup_err")
               /\ UNCHANGED <<enable_led, relay, led, line, busv, sigv,
                              pulsed>>

\* client.subscribe(&command_topic, QoS::ExactlyOnce).await?
Subscribe ==
    /\ pc = "subscribe"
    /\ \E ok \in BOOLEAN :
          IF ok
          THEN /\ CanEnqueue
               /\ reqQueue' = Enqueued(SubscribeReq)
               /\ pc' = NextPc[pc]
               /\ UNCHANGED <<enable_led, hwv, line, req, published,
                              connected, subscribed, sigv, last, cur,
                              outcome, pulsed>>
          ELSE /\ ReturnErr("setup_err")
               /\ UNCHANGED <<enable_led, relay, led, line, busv, sigv,
                              pulsed>>

\* Variant of get_door_status that answers from the last published state.
get_door_status_cached ==
    IF published = "open" THEN "Open" ELSE "Closed"

\* get_door_status(&hw), Ok case: hw.status.get_value().map(parse_door_status)
get_door_status == parse_door_status(line)

\* let status = get_door_status(&hw)?  (line 155)
ReadInitial ==
    /\ pc = "read_initial"
    /\ \E ok \in BOOLEAN :
          IF ok
          THEN /\ req' = StateReq(get_door_status)
               /\ pc' = NextPc[pc]
               /\ UNCHANGED <<enable_led, hwv, line, reqQueue, published,
                              connected, subscribed, sigv, last, cur,
                              outcome, pulsed>>
          ELSE /\ ReturnErr("setup_err")
               /\ UNCHANGED <<enable_led, relay, led, line, busv, sigv,
                              pulsed>>

\* client.publish(&state_topic, QoS::AtLeastOnce, true, ..).await?  (line 157)
PublishInitial ==
    /\ pc = "pub_initial"
    /\ \E ok \in BOOLEAN :
          IF ok
          THEN /\ CanEnqueue
               /\ reqQueue' = Enqueued(req)
               /\ published' = req.payload
               /\ req' = NoReq
               /\ pc' = NextPc[pc]
               /\ UNCHANGED <<enable_led, hwv, line, connected, subscribed,
                              sigv, last, cur, outcome, pulsed>>
          ELSE /\ ReturnErr("setup_err")
               /\ UNCHANGED <<enable_led, relay, led, line, busv, sigv,
                              pulsed>>

(***************************************************************************)
(* trigger_relay(&hw), called from the trigger and the command handlers.   *)
(***************************************************************************)
\* `let _ = hw.lock.lock().await;`: the pattern `_` binds nothing, so the
\* MutexGuard is a temporary dropped at the end of that statement.  TRUE
\* would be a guard bound to a name and alive until the function returns.
lock_guard_live == FALSE

\* Variant in which the rest of the pulse is detached from the loop.
AfterEnergize_detached == "select"

\* Where main is once hw.relay.set_value(1) has returned: suspended in
\* sleep(Duration::from_millis(200)).await, inside the handler.
AfterEnergize == "tr_sleep"

\* A pulse that energizes the relay without lighting the indicator first.
FirstWritePc_relay_first == "tr_relay_on"

\* The statement that performs the first pin write of a pulse.
FirstWritePc == IF enable_led THEN "tr_led_on" ELSE "tr_relay_on"

\* let _ = hw.lock.lock().await; println!("triggering door relay");
TrLock ==
    /\ pc = "tr_lock"
    /\ ~lockHeld
    /\ lockHeld' = lock_guard_live
    /\ pc' = FirstWritePc
    /\ UNCHANGED <<enable_led, exported, relay, led, line, busv, sigv, last,
                   cur, outcome, pulsed>>

\* if let Some(led) = hw.led { led.set_value(1)?; }
TrLedOn ==
    /\ pc = "tr_led_on"
    /\ \E ok \in BOOLEAN :
          IF ok
          THEN /\ led' = 1
               /\ pc' = "tr_relay_on"
               /\ UNCHANGED <<enable_led, exported, relay, line, lockHeld,
                              busv, sigv, last, cur, outcome, pulsed>>
          ELSE /\ ReturnErr("write_err")
               /\ UNCHANGED <<enable_led, relay, led, line, busv, sigv,
                              pulsed>>

\* hw.relay.set_value(1)?;
TrRelayOn ==
    /\ pc = "tr_relay_on"
    /\ \E ok \in BOOLEAN :
          IF ok
          THEN /\ relay' = 1
               /\ pc' = AfterEnergize
               /\ UNCHANGED <<enable_led, exported, led, line, lockHeld,
                              busv, sigv, last, cur, outcome, pulsed>>
          ELSE /\ ReturnErr("write_err")
               /\ UNCHANGED <<enable_led, relay, led, line, busv, sigv,
                              pulsed>>

\* sleep(Duration::from_millis(200)).await: the hold elapses.
TrSleep ==
    /\ pc = "tr_sleep"
    /\ pc' = "tr_relay_off"
    /\ UNCHANGED <<enable_led, hwv, line, busv, sigv, last, cur, outcome,
                   pulsed>>

\* Ok(()) from trigger_relay: a live guard is released, the handler ends.
TrReturn ==
    /\ pc' = "select"
    /\ lockHeld' = FALSE
    /\ cur' = NoCur
    /\ pulsed' = TRUE

\* hw.relay.set_value(0)?;  (and Ok(()) when no led is configured)
TrRelayOff ==
    /\ pc = "tr_relay_off"
    /\ \E ok \in BOOLEAN :
          IF ok
          THEN /\ relay' = 0
               /\ IF enable_led
                  THEN /\ pc' = "tr_led_off"
                       /\ UNCHANGED <<lockHeld, cur, pulsed>>
                  ELSE TrReturn
               /\ UNCHANGED <<enable_led, exported, led, line, busv, sigv,
                              last, outcome>>
          ELSE /\ ReturnErr("write_err")
               /\ UNCHANGED <<enable_led, relay, led, line, busv, sigv,
                              pulsed>>

\* if let Some(led) = hw.led { led.set_value(0)?; }  Ok(())
TrLedOff ==
    /\ pc = "tr_led_off"
    /\ \E ok \in BOOLEAN :
          IF ok
          THEN /\ led' = 0
               /\ TrReturn
               /\ UNCHANGED <<enable_led, exported, relay, line, busv, sigv,
                              last, outcome>>
          ELSE /\ ReturnErr("write_err")
               /\ UNCHANGED <<enable_led, relay, led, line, busv, sigv,
                              pulsed>>

(***************************************************************************)
(* The loop: tokio::select! over five futures created anew each iteration. *)
(* The branch that completes is handled; the other futures are dropped,    *)
(* the ctrl_c future and its signal registration among them.               *)
(***************************************************************************)
LeaveSelect ==
    /\ pc = "select"
    /\ listening' = FALSE
    /\ sigPending' = FALSE
    /\ UNCHANGED <<handlerInstalled, sigRaised>>

\* _next_timer = timer.tick() => { get_door_status(&hw)?; publish(..) }
Tick ==
    /\ LeaveSelect
    /\ \E ok \in BOOLEAN :
          IF ok
          THEN /\ req' = StateReq(get_door_status)
               /\ cur' = [NoCur EXCEPT !.arm = "tick",
                                       !.status = get_door_status]
               /\ last' = "tick"
               /\ pc' = "publish"
               /\ UNCHANGED <<enable_led, hwv, line, reqQueue, published,
                              connected, subscribed, outcome, pulsed>>
          ELSE /\ ReturnErr("read_err")
               /\ UNCHANGED <<enable_led, relay, led, line, busv, pulsed>>

\* Some(Ok(x)) on status_changes: parse_door_status(x), publish(..)
StatusEdge(x) ==
    /\ LeaveSelect
    /\ req' = StateReq(parse_door_status(x))
    /\ cur' = [NoCur EXCEPT !.arm = "status", !.val = x,
                            !.status = parse_door_status(x)]
    /\ last' = "status"
    /\ pc' = "publish"
    /\ UNCHANGED <<enable_led, hwv, line, reqQueue, published, connected,
                   subscribed, outcome, pulsed>>

\* Some(Err(e)) on status_changes: return Err(e).context(..)
StatusError ==
    /\ LeaveSelect
    /\ ReturnErr("status_err")
    /\ UNCHANGED <<enable_led, relay, led, line, busv, pulsed>>

\* None on status_changes: break
StatusClosed ==
    /\ LeaveSelect
    /\ ReturnOk("status_closed")
    /\ UNCHANGED <<enable_led, relay, led, line, busv, pulsed>>

\* client.publish(&state_topic, ..).await? inside the tick and status
\* handlers: the send completes once the channel has room.
PublishAwait ==
    /\ pc = "publish"
    /\ \E ok \in BOOLEAN :
          IF ok
          THEN /\ CanEnqueue
               /\ reqQueue' = Enqueued(req)
               /\ published' = req.payload
               /\ req' = NoReq
               /\ cur' = NoCur
               /\ pc' = "select"
               /\ UNCHANGED <<enable_led, hwv, line, connected, subscribed,
                              sigv, last, outcome, pulsed>>
          ELSE /\ ReturnErr("publish_err")
               /\ UNCHANGED <<enable_led, relay, led, line, busv, sigv,
                              pulsed>>

\* A match arm `Some(Ok(1))` in place of the guard.
input_guard_one(x) == x = 1

\* The guard of the arm `Some(Ok(x)) if x != 0`.
input_guard(x) == x # 0

\* Some(Ok(x)) on input_triggers: x != 0 pulses, 0 is skipped.
InputEdge(x) ==
    /\ LeaveSelect
    /\ IF input_guard(x)
       THEN /\ pc' = "tr_lock"
            /\ cur' = [NoCur EXCEPT !.arm = "input", !.val = x]
            /\ last' = "input_trigger"
       ELSE /\ pc' = "select"
            /\ cur' = NoCur
            /\ last' = "input_zero"
    /\ UNCHANGED <<enable_led, hwv, line, busv, outcome, pulsed>>

\* Some(Err(e)) on input_triggers: return Err(e).context(..)
InputError ==
    /\ LeaveSelect
    /\ ReturnErr("input_err")
    /\ UNCHANGED <<enable_led, relay, led, line, busv, pulsed>>

\* None on input_triggers: break
InputClosed ==
    /\ LeaveSelect
    /\ ReturnOk("input_closed")
    /\ UNCHANGED <<enable_led, relay, led, line, busv, pulsed>>

(***************************************************************************)
(* next_msg = event_loop.poll(): one event of the MQTT event loop.  The    *)
(* connection is made by poll itself, never by AsyncClient::new.           *)
(***************************************************************************)
\* The handler ends without an await: back to the select.
Continue(cls) ==
    /\ pc' = "select"
    /\ cur' = NoCur
    /\ last' = cls

\* poll while disconnected: a connection attempt.  Ok(Incoming(ConnAck))
\* falls to `_ => ()`; Err(e) is printed by the `Err(e) =>` arm.
PollConnect ==
    /\ LeaveSelect
    /\ ~connected
    /\ \E ok \in BOOLEAN :
          /\ connected' = ok
          /\ Continue(IF ok THEN "mqtt_connack" ELSE "mqtt_connect_err")
    /\ UNCHANGED <<enable_led, hwv, line, reqQueue, req, published,
                   subscribed, outcome, pulsed>>

\* poll while connected returns Err(e): the connection is lost (and with
\* it the session's subscription); the error is printed.
PollConnLost ==
    /\ LeaveSelect
    /\ connected
    /\ connected' = FALSE
    /\ subscribed' = FALSE
    /\ Continue("mqtt_conn_err")
    /\ UNCHANGED <<enable_led, hwv, line, reqQueue, req, published, outcome,
                   pulsed>>

\* poll takes the next request off the channel and sends it:
\* Ok(Event::Outgoing(..)) falls to `_ => ()`.
PollOutgoing ==
    /\ LeaveSelect
    /\ connected
    /\ reqQueue # <<>>
    /\ reqQueue' = Tail(reqQueue)
    /\ subscribed' = (subscribed \/ Head(reqQueue).kind = "subscribe")
    /\ Continue("mqtt_outgoing")
    /\ UNCHANGED <<enable_led, hwv, line, req, published, connected, outcome,
                   pulsed>>

\* Ok(Event::Incoming(x)) for x other than Publish (acks, pings): `_ => ()`.
PollIncomingOther ==
    /\ LeaveSelect
    /\ connected
    /\ Continue("mqtt_incoming_other")
    /\ UNCHANGED <<enable_led, hwv, line, busv, outcome, pulsed>>

\* A handler that takes every publish for a command.
topic_is_command_any(topic) == TRUE

\* if packet.topic == command_topic
topic_is_command(topic) == topic = command_topic

\* A validity rule that also remembers that a pulse was given.
ValidCommand_once(c, s) ==
    /\ ~pulsed
    /\ \/ (c = "Open" /\ s = "Closed")
       \/ (c = "Close" /\ s = "Open")

\* (Command::Open, Status::Closed) | (Command::Close, Status::Open)
ValidCommand(c, s) ==
    \/ (c = "Open" /\ s = "Closed")
    \/ (c = "Close" /\ s = "Open")

\* Ok(Event::Incoming(Incoming::Publish(packet))), lines 192-219.
PollPublish(topic, payload) ==
    /\ LeaveSelect
    /\ connected
    /\ topic = command_topic => subscribed
    /\ IF ~topic_is_command(topic)
       THEN /\ Continue("unrecognized_topic")
            /\ UNCHANGED <<exported, lockHeld, outcome>>
       ELSE IF parse_command(payload) = "Err"
       THEN /\ Continue("bad_payload")
            /\ UNCHANGED <<exported, lockHeld, outcome>>
       ELSE \E ok \in BOOLEAN :
               IF ~ok
               THEN ReturnErr("read_err")
               ELSE LET c == parse_command(payload)
                        s == get_door_status
                    IN  /\ IF ValidCommand(c, s)
                           THEN /\ pc' = "tr_lock"
                                /\ cur' = [NoCur EXCEPT !.arm = "bus",
                                                        !.cmd = c,
                                                        !.status = s]
                                /\ last' = IF c = "Open"
                                           THEN "cmd_pulse_open"
                                           ELSE "cmd_pulse_close"
                           ELSE Continue("cmd_ignored")
                        /\ UNCHANGED <<exported, lockHeld, outcome>>
    /\ UNCHANGED <<enable_led, relay, led, line, busv, pulsed>>

(***************************************************************************)
(* _ = tokio::signal::ctrl_c() => break.  ctrl_c() registers a listener    *)
(* when it is first polled; the first registration installs tokio's        *)
(* SIGINT handler for the rest of the process.  A listener sees only the   *)
(* signals delivered while it exists.                                      *)
(***************************************************************************)
\* The select polls its ctrl_c branch, which is pending.
CtrlCRegister ==
    /\ pc = "select"
    /\ ~listening
    /\ listening' = TRUE
    /\ handlerInstalled' = TRUE
    /\ UNCHANGED <<pc, enable_led, hwv, line, busv, sigPending, sigRaised,
                   last, cur, outcome, pulsed>>

\* The ctrl_c branch completes: println!("shutdown signal received"); break
CtrlC ==
    /\ LeaveSelect
    /\ listening
    /\ sigPending
    /\ ReturnOk("ctrl_c")
    /\ UNCHANGED <<enable_led, relay, led, line, busv, pulsed>>

(***************************************************************************)
(* The environment.                                                        *)
(***************************************************************************)
\* The door moves: the status line changes value.
LineChange ==
    /\ outcome = "running"
    /\ line' \in LineValues \ {line}
    /\ UNCHANGED <<pc, enable_led, hwv, busv, sigv, last, cur, outcome,
                   pulsed>>

\* SIGINT is delivered.  With the default disposition it kills the process
\* (nothing is dropped); with tokio's handler installed it notifies the
\* listener that exists, if any.
Signal ==
    /\ outcome = "running"
    /\ IF ~handlerInstalled
       THEN /\ pc' = "done"
            /\ outcome' = "killed"
            /\ UNCHANGED <<sigRaised, sigPending>>
       ELSE /\ sigRaised' = TRUE
            /\ sigPending' = listening
            /\ UNCHANGED <<pc, outcome>>
    /\ UNCHANGED <<enable_led, hwv, line, busv, handlerInstalled, listening,
                   last, cur, pulsed>>

Next ==
    \/ \E pin \in Pins : Export(pin)
    \/ \E pin \in Pins : SetDirection(pin)
    \/ \E pin \in Pins : SetEdge(pin)
    \/ \E pin \in Pins : GetValueStream(pin)
    \/ GetHostname
    \/ PublishConfig
    \/ Subscribe
    \/ ReadInitial
    \/ PublishInitial
    \/ Tick
    \/ \E x \in RawValues : StatusEdge(x)
    \/ StatusError
    \/ StatusClosed
    \/ PublishAwait
    \/ \E x \in RawValues : InputEdge(x)
    \/ InputError
    \/ InputClosed
    \/ PollConnect
    \/ PollConnLost
    \/ PollOutgoing
    \/ PollIncomingOther
    \/ \E t \in Topics, p \in Payloads : PollPublish(t, p)
    \/ CtrlCRegister
    \/ CtrlC
    \/ TrLock
    \/ TrLedOn
    \/ TrRelayOn
    \/ TrSleep
    \/ TrRelayOff
    \/ TrLedOff
    \/ LineChange
    \/ Signal

Spec == Init /\ [][Next]_vars

\* The program while the door does not move: every step but a change of
\* the status line.
NextStill ==
    \/ \E pin \in Pins : Export(pin)
    \/ \E pin \in Pins : SetDirection(pin)
    \/ \E pin \in Pins : SetEdge(pin)
    \/ \E pin \in Pins : GetValueStream(pin)
    \/ GetHostname
    \/ PublishConfig
    \/ Subscribe
    \/ ReadInitial
    \/ PublishInitial
    \/ Tick
    \/ \E x \in RawValues : StatusEdge(x)
    \/ StatusError
    \/ StatusClosed
    \/ PublishAwait
    \/ \E x \in RawValues : InputEdge(x)
    \/ InputError
    \/ InputClosed
    \/ PollConnect
    \/ PollConnLost
    \/ PollOutgoing
    \/ PollIncomingOther
    \/ \E t \in Topics, p \in Payloads : PollPublish(t, p)
    \/ CtrlCRegister
    \/ CtrlC
    \/ TrLock
    \/ TrLedOn
    \/ TrRelayOn
    \/ TrSleep
    \/ TrRelayOff
    \/ TrLedOff
    \/ Signal

SpecStill == Init /\ [][NextStill]_vars

(***************************************************************************)
(* Properties.                                                             *)
(***************************************************************************)
\* What a handler that is a no-op leaves alone: the pins, the bus, the
\* exported lines, and the process keeps running at the select.
NoEffect ==
    /\ pc' = "select"
    /\ outcome' = "running"
    /\ UNCHANGED <<relay, led, exported, reqQueue, req, published>>

\* C1: for every command c parsed from a publish on the command topic and
\* the door state s mapped from the status line's value at that step (the
\* read having succeeded), the handler enters trigger_relay iff
\* (c = Open and s = Closed) or (c = Close and s = Open); in every other
\* pairing it writes no pin, publishes nothing and the loop keeps running.
C1_CommandValidity ==
    [][\A p \in Payloads :
          (/\ PollPublish(command_topic, p)
           /\ p \in {OPEN_bytes, CLOSE_bytes}
           /\ last' # "read_err")
          => LET c == IF p = OPEN_bytes THEN "Open" ELSE "Close"
                 s == IF line = 0 THEN "Open" ELSE "Closed"
             IN  IF (c = "Open" /\ s = "Closed") \/ (c = "Close" /\ s = "Open")
                 THEN /\ pc' = "tr_lock"
                      /\ outcome' = "running"
                      /\ UNCHANGED <<relay, led, exported, reqQueue, req,
                                     published>>
                 ELSE NoEffect]_vars

\* C1 witness: an OPEN command was handled while the line read Closed and
\* the published state said "open"; the pulse is about to start.
C1_Witness ==
    /\ pc = "tr_lock"
    /\ cur.arm = "bus"
    /\ cur.cmd = "Open"
    /\ cur.status = "Closed"
    /\ line = 1
    /\ published = "open"

\* C1 witness of the no-op half is the state C1_WitnessIgnored describes:
\* a command was ignored and the loop is back at the select.
C1_WitnessIgnored ==
    /\ pc = "select"
    /\ last = "cmd_ignored"
    /\ relay = 0

\* A pulse has made its first pin write and not yet its last.
InPulse ==
    pc \in ({"tr_sleep", "tr_relay_off"}
            \cup (IF enable_led THEN {"tr_relay_on", "tr_led_off"} ELSE {}))

\* C2: in every reachable state in which a pulse is between its first and
\* its last pin write (the 200 ms hold included), hw.lock is held.
C2_LockHeldDuringPulse == InPulse => lockHeld

\* C3: a pulse request never opens its energize window inside another
\* one: whenever trigger_relay has been entered and has not yet made its
\* first pin write, the relay and the indicator are low, that is, every
\* earlier pulse has finished its whole sequence.
C3_NoOverlap ==
    pc \in {"tr_lock", FirstWritePc} => (relay = 0 /\ led = 0)

\* C3 witness: a second pulse, requested by a bus command, is about to make
\* its first write after an earlier pulse has returned.
C3_Witness ==
    /\ pulsed
    /\ pc = FirstWritePc
    /\ cur.arm = "bus"

\* C4: a publish on the command topic whose payload is not exactly "OPEN"
\* or "CLOSE" is ignored: no pin write, no sensor-read error, no publish,
\* and the loop is back at its select, still running.
C4_InvalidPayloadIgnored ==
    [][\A p \in Payloads :
          (p \notin {OPEN_bytes, CLOSE_bytes} /\ PollPublish(command_topic, p))
          => (NoEffect /\ last' = "bad_payload" /\ lockHeld' = lockHeld)]_vars

\* C4 witness: an invalid payload has been handled and the loop waits again.
C4_Witness ==
    /\ pc = "select"
    /\ last = "bad_payload"
    /\ outcome = "running"

\* C5: a SIGINT delivered once the loop has started is never lost: while
\* the process is still running it stays pending for the loop's ctrl-c arm.
C5_SignalNeverLost ==
    (sigRaised /\ outcome = "running") => sigPending

\* C6: once the signal has arrived while the loop is suspended in its
\* select, the next step of the loop is the exit: no other event is handled,
\* the process returns success and every exported line is released.
C6_ExitOnSignal ==
    [][(pc = "select" /\ sigPending)
       => \/ sigPending'
          \/ (pc' = "done" /\ outcome' = "success" /\ exported' = {})]_vars

\* The state-topic request that carries `payload`, retained.
RetainedState(payload) ==
    [kind |-> "publish", topic |-> state_topic, retain |-> TRUE,
     payload |-> payload]

\* C7: a status edge carrying raw value v issues exactly one publish to the
\* state topic, retained, with payload "open" when v = 0 and "closed"
\* otherwise, and writes no pin: the handler prepares that one request,
\* nothing is queued while it is suspended, and when the send completes
\* exactly that request has been appended to the channel.
C7_StatusEdgePublish ==
    [][/\ \A x \in RawValues :
             StatusEdge(x)
             => /\ req' = RetainedState(IF x = 0 THEN "open" ELSE "closed")
                /\ pc' = "publish"
                /\ UNCHANGED <<relay, led, reqQueue, published>>
       /\ (pc = "publish" /\ cur.arm = "status")
          => /\ UNCHANGED <<relay, led>>
             /\ \/ /\ pc' = "publish"
                   /\ UNCHANGED <<reqQueue, req, published, cur>>
                \/ /\ pc' = "select"
                   /\ reqQueue' =
                         Append(reqQueue, [kind |-> "publish",
                                           topic |-> state_topic,
                                           retain |-> TRUE])
                   /\ published' = (IF cur.val = 0 THEN "open" ELSE "closed")
                \/ /\ pc' = "done"
                   /\ UNCHANGED <<reqQueue, published>>]_vars

\* C7 witness: an edge with value 0 is being published as "open", retained,
\* after "closed" was the last state published.
C7_Witness ==
    /\ pc = "publish"
    /\ cur.arm = "status"
    /\ cur.val = 0
    /\ published = "closed"
    /\ req = RetainedState("open")

\* The steady-state errors of a line or of a publish.
FatalErrs == {"read_err", "status_err", "input_err", "write_err",
              "publish_err"}
\* The errors event_loop.poll() returns.
BusErrs == {"mqtt_connect_err", "mqtt_conn_err"}

\* C8 as stated: every steady-state I/O error, an error event of the bus
\* event stream included, ends the process with failure.
C8_Original ==
    last \in (FatalErrs \cup BusErrs) => (pc = "done" /\ outcome = "failure")

\* C8 as amended: a failed sensor read, an error item on an edge stream, a
\* failed pin write and a failed publish are fatal (the process ends with
\* failure and nothing is handled after it); an error returned by the bus
\* event stream is only logged, and the loop goes on waiting.
C8_FatalIoErrors ==
    [][/\ last' \in FatalErrs => (pc' = "done" /\ outcome' = "failure")
       /\ last \in FatalErrs => UNCHANGED vars
       /\ (PollConnLost \/ (PollConnect /\ ~connected'))
          => (NoEffect /\ last' \in BusErrs)]_vars

\* C8 witness: the relay's de-energize write failed and the process ended
\* with failure, the relay still high.
C8_Witness ==
    /\ last = "write_err"
    /\ relay = 1
    /\ pc = "done"
    /\ outcome = "failure"

\* The ways the loop ends cleanly: ctrl-c, or an edge stream yielding None.
CleanEnds == {"ctrl_c", "status_closed", "input_closed"}

\* C9: the process ends with success exactly when the loop ended through
\* the shutdown signal or the clean closure of an event stream, and with
\* failure whenever an error was propagated.
C9_ExitStatus ==
    pc = "done"
    => /\ (outcome = "success") <=> (last \in CleanEnds)
       /\ last \in (FatalErrs \cup {"setup_err"}) => outcome = "failure"

\* C9 witness: the status stream ended and the process returned success.
C9_Witness ==
    /\ pc = "done"
    /\ outcome = "success"
    /\ last = "status_closed"

\* No request has been taken off the channel yet: the broker has never
\* been sent anything.
NothingSentYet ==
    /\ Len(reqQueue) >= 1
    /\ Head(reqQueue).topic = config_topic

\* C10 as stated: a failed setup step, a failure to connect to the bus
\* included, ends the process with failure.
C10_Original ==
    (last = "setup_err" \/ (last = "mqtt_connect_err" /\ NothingSentYet))
    => (pc = "done" /\ outcome = "failure")

\* C10 as amended: if exporting a line, setting its direction or edge mode,
\* opening an edge stream, the initial sensor read or a startup publish or
\* subscribe fails, the process ends with failure before the loop has
\* handled any event and handles none afterwards; a failure to connect to
\* the bus is met only inside the loop, where it is logged.
C10_SetupErrorsAbort ==
    [][/\ (last' = "setup_err" /\ last # "setup_err")
          => (last = "none" /\ pc' = "done" /\ outcome' = "failure")
       /\ last = "setup_err" => UNCHANGED vars
       /\ (PollConnect /\ ~connected')
          => (NoEffect /\ last' = "mqtt_connect_err")]_vars

\* C10 witness: Hardware::init failed after a line had been exported.
C10_Witness ==
    /\ last = "setup_err"
    /\ exported # {}
    /\ outcome = "failure"

\* The decision table of the door state, written out.
DoorTable(v) == IF v = 0 THEN "Open" ELSE "Closed"

(***************************************************************************)
(* C11.  The door state is a fixed table of the raw line value: Open for   *)
(* 0 and Closed for every other value (no threshold), and the table is the *)
(* same for a value carried by a status edge and for a value read          *)
(* synchronously (at startup, on a tick, for a command).                   *)
(***************************************************************************)
C11_DoorStateTable ==
    [][ /\ \A x \in RawValues :
              StatusEdge(x) =>
                  /\ cur'.status = DoorTable(x)
                  /\ req' = RetainedState(Status_to_string(DoorTable(x)))
        /\ (Tick /\ pc' = "publish") =>
              /\ cur'.status = DoorTable(line)
              /\ req' = RetainedState(Status_to_string(DoorTable(line)))
        /\ (ReadInitial /\ pc' = "pub_initial") =>
              req' = RetainedState(Status_to_string(DoorTable(line)))
        /\ \A p \in Payloads :
              (PollPublish(command_topic, p) /\ pc' = "tr_lock") =>
                  cur'.status = DoorTable(line)
      ]_vars

\* A status edge that carried a value above 1 is being published as closed.
C11_Witness ==
    /\ pc = "publish"
    /\ cur.arm = "status"
    /\ cur.val > 1
    /\ cur.status = "Closed"
    /\ req.payload = "closed"

\* The value the indicator has while the relay is being driven.
LedDuringPulse == IF enable_led THEN 1 ELSE 0

\* The statements of trigger_relay that write a pin.
WritePcs == {"tr_led_on", "tr_relay_on", "tr_relay_off", "tr_led_off"}

(***************************************************************************)
(* C12.  A pulse writes in the fixed order indicator high (when            *)
(* configured), relay high, 200 ms hold, relay low, indicator low (when    *)
(* configured): each pin changes only at its own statement, from the       *)
(* values the earlier writes left, and the hold lies between the two relay *)
(* writes.  A failed write changes no pin, is followed by no other write   *)
(* (the process has ended with failure, relay and indicator as they were). *)
(***************************************************************************)
C12_PulseSequence ==
    [][ /\ (pc = "tr_lock" /\ pc' # pc /\ pc' # "done")
              => /\ pc' = (IF enable_led THEN "tr_led_on" ELSE "tr_relay_on")
                 /\ UNCHANGED <<relay, led>>
        /\ (led' # led \/ relay' # relay)
              => \/ /\ pc = "tr_led_on" /\ pc' = "tr_relay_on"
                    /\ enable_led
                    /\ led = 0 /\ led' = 1
                    /\ relay = 0 /\ relay' = 0
                 \/ /\ pc = "tr_relay_on" /\ pc' = "tr_sleep"
                    /\ led = LedDuringPulse /\ led' = led
                    /\ relay = 0 /\ relay' = 1
                 \/ /\ pc = "tr_relay_off"
                    /\ pc' = (IF enable_led THEN "tr_led_off" ELSE "select")
                    /\ led = LedDuringPulse /\ led' = led
                    /\ relay = 1 /\ relay' = 0
                 \/ /\ pc = "tr_led_off" /\ pc' = "select"
                    /\ enable_led
                    /\ led = 1 /\ led' = 0
                    /\ relay = 0 /\ relay' = 0
        /\ (pc \in WritePcs /\ pc' # pc /\ pc' # "done")
              => (led' # led \/ relay' # relay)
        /\ (pc = "tr_sleep" /\ pc' # pc)
              => /\ pc' \in {"tr_relay_off", "done"}
                 /\ UNCHANGED <<relay, led>>
        /\ (last' = "write_err" /\ last # "write_err")
              => /\ pc \in WritePcs
                 /\ pc' = "done"
                 /\ outcome' = "failure"
                 /\ UNCHANGED <<relay, led>>
        /\ pc = "done" => UNCHANGED <<pc, relay, led, last, outcome>>
      ]_vars

\* The de-energize write failed with the indicator configured: the process
\* has ended with the relay and the indicator still high.
C12_Witness ==
    /\ pc = "done"
    /\ last = "write_err"
    /\ enable_led
    /\ relay = 1
    /\ led = 1

(***************************************************************************)
(* C13.  A trigger edge with a non-zero value invokes one relay pulse      *)
(* whatever the door state and without any bus publish: the handler enters *)
(* trigger_relay once, queues nothing, and the pulse it started runs its   *)
(* statements and returns to the select without a publish.  A trigger edge *)
(* with value 0 writes no pin, publishes nothing and leaves the loop       *)
(* running at its select.                                                  *)
(***************************************************************************)
C13_TriggerEdge ==
    [][ /\ \A x \in RawValues :
              InputEdge(x) =>
                  IF x = 0
                  THEN NoEffect
                  ELSE /\ pc' = "tr_lock"
                       /\ cur'.arm = "input"
                       /\ outcome' = "running"
                       /\ UNCHANGED <<relay, led, exported, reqQueue, req,
                                      published>>
        /\ cur.arm = "input" =>
              /\ UNCHANGED <<reqQueue, req, published>>
              /\ pc \in {"tr_lock"} \cup WritePcs \cup {"tr_sleep"}
              /\ pc' \in {pc, "tr_led_on", "tr_relay_on", "tr_sleep",
                          "tr_relay_off", "tr_led_off", "select", "done"}
              /\ pc' = "select" => (cur'.arm = "none" /\ relay' = 0)
      ]_vars

\* A trigger edge of value MaxRaw has started a pulse while the line reads
\* open, with nothing new in the channel.
C13_Witness ==
    /\ pc = "tr_sleep"
    /\ cur.arm = "input"
    /\ cur.val = MaxRaw
    /\ line = 0
    /\ relay = 1
    /\ req = NoReq

\* The startup statements in the order the claim lists them: the lines are
\* configured, the two edge streams opened, the bus client made, the
\* descriptor published, the command topic subscribed, the state read and
\* published; then the loop waits.
StartupOrder ==
    <<"led_export", "led_direction", "relay_export", "relay_direction",
      "status_export", "status_direction", "status_edge", "input_export",
      "input_direction", "input_edge", "status_stream", "input_stream",
      "hostname", "pub_config", "subscribe", "read_initial", "pub_initial",
      "select">>

\* The lines a finished Hardware::init has exported.
ConfiguredLines == IF enable_led THEN Pins ELSE Pins \ {"led"}

\* What the channel holds once the startup requests are issued.
StartupRequests ==
    << [kind |-> "publish", topic |-> config_topic, retain |-> FALSE],
       [kind |-> "subscribe", topic |-> command_topic, retain |-> FALSE],
       [kind |-> "publish", topic |-> state_topic, retain |-> TRUE] >>

\* C14 as stated: before the loop handles its first event the bus
\* connectivity is established ahead of the descriptor publish, the
\* subscription and the initial state publish, and no relay write and no
\* event precede the initial state publish.
C14_Original ==
    /\ (pc \in {"pub_config", "subscribe", "read_initial", "pub_initial"}
        \/ (pc = "select" /\ last = "none"))
       => (connected /\ exported = ConfiguredLines)
    /\ (pc = "select" /\ last = "none") => reqQueue = StartupRequests
    /\ published = "" => (last \in {"none", "setup_err"} /\ relay = 0
                          /\ ~pulsed)

(***************************************************************************)
(* C14 as amended.  Before the loop handles its first event the startup    *)
(* statements run in this order: the lines are configured, the two edge    *)
(* streams are opened, the bus client is created (no connection is made:   *)
(* the loop's bus polls make it), the discovery descriptor is queued       *)
(* non-retained, the subscription to the command topic is queued, and the  *)
(* door state read from the sensor line is queued once, retained.  No      *)
(* event is handled and no pin is written before the initial state publish *)
(* has been issued.                                                        *)
(***************************************************************************)
C14_StartupOrder ==
    [][ /\ (last = "none" /\ pc # "select" /\ pc' # pc /\ pc' # "done")
              => \E i \in 1..(Len(StartupOrder) - 1) :
                    /\ StartupOrder[i] = pc
                    /\ StartupOrder[i + 1] = pc'
        /\ (pc = "input_stream" /\ pc' = "hostname")
              => (exported = ConfiguredLines /\ relay = 0 /\ led = 0
                  /\ reqQueue = <<>>)
        /\ (pc = "pub_config" /\ pc' = "subscribe")
              => (reqQueue = <<>> /\ reqQueue' = SubSeq(StartupRequests, 1, 1))
        /\ (pc = "subscribe" /\ pc' = "read_initial")
              => reqQueue' = SubSeq(StartupRequests, 1, 2)
        /\ (pc = "read_initial" /\ pc' = "pub_initial")
              => /\ req' = RetainedState(Status_to_string(DoorTable(line)))
                 /\ UNCHANGED reqQueue
        /\ (pc = "pub_initial" /\ pc' = "select")
              => /\ reqQueue' = StartupRequests
                 /\ published = ""
                 /\ published' = req.payload
                 /\ ~connected'
        /\ (last = "none" /\ last' \notin {"none", "setup_err"})
              => (pc = "select" /\ published # ""
                  /\ reqQueue = StartupRequests)
        /\ (relay' # relay \/ led' # led)
              => (published # "" /\ last # "none")
      ]_vars

\* The loop waits for its first event: the three startup requests are in
\* the channel in order and the bus is not connected.
C14_Witness ==
    /\ pc = "select"
    /\ last = "none"
    /\ reqQueue = StartupRequests
    /\ published = "open"
    /\ ~connected
    /\ exported = ConfiguredLines

\* The tick arm's handler ends: its publish has been accepted by the
\* channel and the loop is back at its select.
TickHandled ==
    /\ PublishAwait
    /\ cur.arm = "tick"
    /\ pc' = "select"

(***************************************************************************)
(* C15.  Each tick re-reads the sensor line and publishes, retained, the   *)
(* state mapped from the value it has just read.  Hence, whatever status   *)
(* edges were lost: if the line stays at one value from some point on and  *)
(* ticks keep being handled, the last published state is again and again   *)
(* (so eventually) the state of the line.                                  *)
(***************************************************************************)
C15_TickReconciles ==
    /\ [][ /\ (Tick /\ pc' = "publish")
                 => req' = RetainedState(Status_to_string(DoorTable(line)))
           /\ TickHandled
                 => /\ published' = req.payload
                    /\ reqQueue' = Append(reqQueue,
                                          [kind |-> "publish",
                                           topic |-> state_topic,
                                           retain |-> TRUE])
         ]_vars
    /\ \A v \in LineValues :
          (<>[](line = v) /\ []<><<TickHandled>>_vars)
          => []<>(published = Status_to_string(DoorTable(v)))

\* A tick is publishing a state that differs from the last published one:
\* the edge that led to the line's current value was never published.
C15_Witness ==
    /\ pc = "publish"
    /\ cur.arm = "tick"
    /\ line = 0
    /\ published = "closed"
    /\ req.payload = "open"

\* A bus event other than an incoming publish on the command topic.
OtherBusEvent ==
    \/ PollConnect
    \/ PollConnLost
    \/ PollOutgoing
    \/ PollIncomingOther
    \/ \E t \in Topics \ {command_topic}, p \in Payloads : PollPublish(t, p)

(***************************************************************************)
(* C16.  A bus event that is not an incoming publish on the command topic  *)
(* (a publish on another topic, any other protocol event, a bus-level      *)
(* error) writes no pin and publishes nothing: relay, indicator and the    *)
(* published door state are unchanged, no request is prepared or added to  *)
(* the channel, and the loop is back at its select, still running.         *)
(***************************************************************************)
C16_OtherBusEventsInert ==
    [][ OtherBusEvent =>
           /\ pc' = "select"
           /\ outcome' = "running"
           /\ UNCHANGED <<relay, led, exported, req, published, pulsed>>
           /\ Len(reqQueue') <= Len(reqQueue)
           /\ last' \in {"mqtt_connack", "mqtt_connect_err", "mqtt_conn_err",
                         "mqtt_outgoing", "mqtt_incoming_other",
                         "unrecognized_topic"}
      ]_vars

\* A publish on another topic has just been skipped.
C16_Witness ==
    /\ pc = "select"
    /\ last = "unrecognized_topic"
    /\ outcome = "running"
    /\ relay = 0
    /\ published # ""

(***************************************************************************)
(* C17.  Whenever the loop is suspended in its multi-way wait the relay is *)
(* low, and so is the indicator.  While the process runs the relay is high *)
(* only between the energize and the de-energize write of a pulse in       *)
(* progress (the indicator only between its own two writes), starting from *)
(* the low value set at initialization.                                    *)
(***************************************************************************)
C17_RelayLowWhileWaiting ==
    /\ pc = "select" => (relay = 0 /\ led = 0)
    /\ (outcome = "running" /\ relay = 1)
          => pc \in {"tr_sleep", "tr_relay_off"}
    /\ (outcome = "running" /\ led = 1)
          => (enable_led /\ pc \in {"tr_relay_on", "tr_sleep", "tr_relay_off",
                                    "tr_led_off"})

\* The loop waits again after a completed pulse with an indicator
\* configured: both lines are low.
C17_Witness ==
    /\ pc = "select"
    /\ outcome = "running"
    /\ pulsed
    /\ enable_led
    /\ relay = 0
    /\ led = 0

\* C18 as stated: the loop never blocks for ever inside a handler on a
\* state publish.  The channel is drained only by the bus poll, which runs
\* only while the loop is at its select, so a publish can complete only if
\* the channel has room when the handler reaches it: whenever a tick or
\* status-edge handler is suspended in its publish, the channel holds fewer
\* than QueueCap requests.
C18_Original ==
    pc = "publish" => Len(reqQueue) < QueueCap

\* The handler's publish is accepted by the channel.
PublishCompletes ==
    /\ PublishAwait
    /\ pc' = "select"

(***************************************************************************)
(* C18 as amended.  State publishes are placed in the request channel of   *)
(* capacity QueueCap, which only the bus poll drains, at the select and    *)
(* while connected.  While the channel has room a handler's publish can    *)
(* complete, connected or not; while a handler waits in its publish        *)
(* nothing else touches the channel; and when the channel is full at that  *)
(* point the handler stays in the publish: the loop is stalled (or the     *)
(* process ends).                                                          *)
(***************************************************************************)
C18_PublishBlocksWhenFull ==
    /\ [](Len(reqQueue) <= QueueCap)
    /\ []((pc = "publish" /\ Len(reqQueue) < QueueCap)
             => ENABLED PublishCompletes)
    /\ [][ /\ Len(reqQueue') < Len(reqQueue)
                 => (pc = "select" /\ connected /\ PollOutgoing)
           /\ pc = "publish"
                 => \/ reqQueue' = reqQueue
                    \/ PublishCompletes
           /\ (pc = "publish" /\ Len(reqQueue) = QueueCap)
                 => (pc' \in {"publish", "done"} /\ reqQueue' = reqQueue)
         ]_vars

\* A handler is suspended in a state publish with the channel full and the
\* broker unreachable.
C18_Witness ==
    /\ pc = "publish"
    /\ outcome = "running"
    /\ Len(reqQueue) = QueueCap
    /\ ~connected
    /\ req.topic = state_topic

(***************************************************************************)
(* C19.  On every path by which the process returns from main after at     *)
(* least one line was exported (a failure partway through Hardware::init,  *)
(* an error return from the loop, a clean end), every exported line has    *)
(* been unexported before the process exits.                               *)
(***************************************************************************)
C19_LinesReleasedAtExit ==
    (pc = "done" /\ outcome \in {"success", "failure"}) => exported = {}

\* The same command is delivered again straight after a delivery of it
\* that pulsed the relay.
SecondDelivery ==
    \/ (last = "cmd_pulse_open" /\ PollPublish(command_topic, OPEN_bytes))
    \/ (last = "cmd_pulse_close" /\ PollPublish(command_topic, CLOSE_bytes))

\* C20 as stated: if the same command is delivered twice and the status
\* line's value does not change between the two deliveries (it never
\* changes under SpecStill), the relay is pulsed at most once for the pair:
\* the second delivery of a command that pulsed does not pulse.
C20_Original ==
    [][SecondDelivery => pc' # "tr_lock"]_vars

(***************************************************************************)
(* C20 as amended.  Each delivery of a command is validated against the    *)
(* status line's value at that delivery and nothing else: if the same      *)
(* command is delivered twice and the line's value does not change between *)
(* the two deliveries, a command that pulsed the relay the first time      *)
(* pulses it again (unless the sensor read fails, which ends the process). *)
(***************************************************************************)
C20_DuplicatePulsesAgain ==
    [][SecondDelivery =>
          \/ /\ pc' = "tr_lock"
             /\ cur'.arm = "bus"
             /\ last' = last
          \/ /\ pc' = "done"
             /\ last' = "read_err"
      ]_vars

\* The second pulse for a repeated OPEN is under way: a pulse was completed
\* before, the last event was an OPEN that pulsed, and the line reads
\* closed as it has throughout.
C20_Witness ==
    /\ pc = "tr_sleep"
    /\ cur.arm = "bus"
    /\ cur.cmd = "Open"
    /\ last = "cmd_pulse_open"
    /\ pulsed
    /\ line = 1
    /\ relay = 1

====
